---- MODULE Spec2Model ----
(***************************************************************************)
(* XO User Memory API (src/main.py): the users and user_memories tables   *)
(* and the five /user-memories handlers, one action per awaited store     *)
(* statement.  Every statement runs in its own transaction (asyncpg       *)
(* autocommit), so requests interleave between statements.                *)
(*                                                                         *)
(* Confidence is kept in tenths (10 stands for 1.0), timestamps are ticks *)
(* of the store clock.  The users columns created_at / updated_at are     *)
(* written once by the INSERT and never read, and are left out.           *)
(***************************************************************************)
EXTENDS Integers, Sequences, FiniteSets, TLC

(* ------------------------------ bounds ------------------------------- *)
MaxRequests == 2      \* requests accepted over a run
MaxTime == 1          \* last tick of the store clock
MaxBatch == 2         \* longest memories[] of a bulk request

(* ----------------------------- constants ----------------------------- *)
None == "None"               \* Python None / SQL NULL of a text column
NullTime == 0 - 1            \* SQL NULL of a timestamp column
NoUser == 0                  \* no users row (fetchrow returned None)
DefaultCategory == "general"
DefaultConfidence == 10
MinConfidence == 0
MaxConfidence == 10
DefaultLimit == 50
MaxLimit == 200
PoolMaxSize == 10             \* asyncpg.create_pool(..., max_size=10)

Procs == {1, 2}
Channels == {"sms"}
Peers == {"+1555", "+1666"}
\* a str the store cannot keep (it holds a NUL byte): pydantic accepts it,
\* the INSERT fails with an error that is not a UniqueViolationError
BadFact == "nul\\x00"

\* users, memories: the two tables; nextMemId: the user_memories id sequence;
\* now: the store clock; pc, req, loc, resp: each worker's position, request,
\* locals and response.  History kept for the properties: last, the request just
\* answered if it was a create that stored its memory; pre, the tables when the
\* latest request was accepted or answered; started, the requests accepted.
\* held: the pooled connections each worker's request has acquired.
VARIABLES users, memories, nextMemId, now, pc, req, loc, resp, last, pre, started,
          held

vars == <<users, memories, nextMemId, now, pc, req, loc, resp, last, pre, started,
          held>>

Get(m, k, d) == IF k \in DOMAIN m THEN m[k] ELSE d

Min(a, b) == IF a < b THEN a ELSE b

(* ------------------------- request inputs ---------------------------- *)
\* POST /user-memories bodies: the required fields alone, every optional field
\* given, a confidence above 1, a fact the store refuses, and an empty fact
CreateBase == { [channel |-> c, peer |-> q, fact |-> "likes tea"] :
                  c \in Channels, q \in Peers }

CreateBodies ==
    CreateBase
    \cup { b @@ [category |-> "work", confidence |-> 5, session_id |-> "s1",
                 expires_at |-> 1] : b \in CreateBase }
    \cup { b @@ [confidence |-> 15] : b \in CreateBase }
    \cup { [channel |-> c, peer |-> q, fact |-> BadFact] : c \in Channels, q \in Peers }
    \cup { [channel |-> "sms", peer |-> "+1666", fact |-> ""] }

\* entries of memories[] (List[dict]: any keys, nothing validated): defaults
\* alone, a category with a confidence above 1, and a fact the store refuses
Entries ==
    { [fact |-> "likes tea"],
      [fact |-> "has a cat", category |-> "work", confidence |-> 15],
      [fact |-> BadFact] }

Batches == UNION { [1..n -> Entries] : n \in 0..MaxBatch }

BulkBase == { [channel |-> c, peer |-> q, memories |-> b] :
                c \in Channels, q \in Peers, b \in Batches }

\* every batch without a session_id, and one request that carries one
BulkBodies ==
    BulkBase \cup { [channel |-> "sms", peer |-> "+1666", session_id |-> "s2",
                      memories |-> << [fact |-> "likes tea"] >>] }

ListBase == { [channel |-> c, peer |-> q] : c \in Channels, q \in Peers }

ListOptions ==
    { [category |-> "work"], [category |-> ""], [limit |-> 1], [limit |-> 201],
      [limit |-> 0 - 1], [since |-> 0] }

ListQueries == ListBase \cup { b @@ o : b \in ListBase, o \in ListOptions }

(* ----------------------------- models -------------------------------- *)
\* class MemoryCreate: the body with its defaults filled in
MemoryCreate(body) ==
    [ channel    |-> body.channel,
      peer       |-> body.peer,
      fact       |-> body.fact,
      category   |-> Get(body, "category", DefaultCategory),
      session_id |-> Get(body, "session_id", None),
      confidence |-> Get(body, "confidence", DefaultConfidence),
      expires_at |-> Get(body, "expires_at", NullTime) ]

\* Field(default=1.0, ge=0, le=1)
ConfidenceValid(body) ==
    LET c == Get(body, "confidence", DefaultConfidence)
    IN  c >= MinConfidence /\ c <= MaxConfidence

\* limit: int = Query(default=50, le=200)
\* (LimitValidNone: a limit parameter with no le=200)
LimitOf(q) == Get(q, "limit", DefaultLimit)

LimitValidNone(q) == TRUE

LimitValid(q) == LimitOf(q) <= MaxLimit

(* ------------------------------ store -------------------------------- *)
\* SELECT id, xo_user_id FROM users WHERE channel = $1 AND channel_peer = $2
SelectUser(channel, peer) ==
    { u \in users : u.channel = channel /\ u.channel_peer = peer }

\* a users table with no uniqueness constraint
UsersUniqueViolationNone(channel, peer) == FALSE

\* the uniqueness constraint on users(channel, channel_peer)
UsersUniqueViolation(channel, peer) == SelectUser(channel, peer) # {}

\* gen_random_uuid(): an id no users row has (rows are never deleted)
GenRandomUuid == Cardinality(users) + 1

\* INSERT INTO users (...) VALUES (gen_random_uuid(), $1, $2, $2, 'active', ...)
NewUserRow(id, channel, peer) ==
    [ id |-> id, channel |-> channel, channel_peer |-> peer,
      label |-> peer, status |-> "active", xo_user_id |-> None ]

\* SELECT id FROM user_memories WHERE user_id = $1 AND fact = $2
SelectMemory(user_id, fact) ==
    { m \in memories : m.user_id = user_id /\ m.fact = fact }

\* a user_memories table that takes the same fact twice
MemoryUniqueViolationNone(user_id, fact) == FALSE

\* the uniqueness constraint on user_memories(user_id, fact), raised to the
\* handlers as asyncpg.UniqueViolationError
MemoryUniqueViolation(user_id, fact) == SelectMemory(user_id, fact) # {}

\* an INSERT the store refuses with an error other than a uniqueness violation
StoreRejects(fact) == fact = BadFact

\* INSERT INTO user_memories (user_id, fact, category, session_id, confidence, expires_at)
NewMemoryRow(user_id, fact, category, session_id, confidence, expires_at) ==
    [ id |-> nextMemId, user_id |-> user_id, fact |-> fact, category |-> category,
      session_id |-> session_id, confidence |-> confidence,
      created_at |-> now, expires_at |-> expires_at ]

\* RETURNING / SELECT id, fact, category, confidence, created_at, expires_at
Returning(m) ==
    [ id |-> m.id, fact |-> m.fact, category |-> m.category,
      confidence |-> m.confidence, created_at |-> m.created_at,
      expires_at |-> m.expires_at ]

\* expires_at >= NOW(): a memory expiring at this very instant is still listed
UnexpiredInclusive(m) == m.expires_at = NullTime \/ m.expires_at >= now

\* expires_at IS NULL OR expires_at > NOW()
Unexpired(m) == m.expires_at = NullTime \/ m.expires_at > now

\* if category: ... AND category = $n
CategoryMatches(q, m) ==
    ("category" \in DOMAIN q /\ q.category # "") => m.category = q.category

\* if since: ... AND created_at > $n
SinceMatches(q, m) == "since" \in DOMAIN q => m.created_at > q.since

\* the WHERE clause of the listing
Matching(user_id, q) ==
    { m \in memories : /\ m.user_id = user_id
                       /\ Unexpired(m)
                       /\ CategoryMatches(q, m)
                       /\ SinceMatches(q, m) }

\* ORDER BY created_at DESC: every order the store may give (ties in any order)
RECURSIVE OrderDesc(_)
OrderDesc(S) ==
    IF S = {} THEN { <<>> }
    ELSE UNION { { <<m>> \o t : t \in OrderDesc(S \ {m}) } :
                 m \in { x \in S : \A y \in S : y.created_at <= x.created_at } }

\* LIMIT $n
Limit(s, n) == SubSeq(s, 1, Min(n, Len(s)))

\* memories = [dict(r) for r in rows]
Rows(s) == [ i \in 1..Len(s) |-> Returning(s[i]) ]

\* the body get_memories returns
ListResponse(q, user_id, xo_user_id, rows) ==
    [ channel |-> q.channel, peer |-> q.peer,
      user_id |-> user_id, xo_user_id |-> xo_user_id,
      memories |-> rows, total |-> Len(rows) ]

(* --------------------------- request state --------------------------- *)
NoReq == [ op |-> "none" ]
\* a handler's locals; conflict: the handler is past "except UniqueViolationError"
NoLoc == [ user_id |-> NoUser, xo_user_id |-> None, i |-> 1, created |-> 0,
           duplicates |-> 0, conflict |-> FALSE ]
NoResp == [ status |-> 0 ]

\* The service starts against a store that already holds one user, linked to an
\* external id by another system, with two memories; the second peer is unknown.
InitUsers ==
    { [ id |-> 1, channel |-> "sms", channel_peer |-> "+1555", label |-> "+1555",
        status |-> "active", xo_user_id |-> "xo-7" ] }

InitMemories ==
    { [ id |-> 1, user_id |-> 1, fact |-> "likes tea", category |-> "general",
        session_id |-> None, confidence |-> 10, created_at |-> 0,
        expires_at |-> NullTime ],
      [ id |-> 2, user_id |-> 1, fact |-> "has a dog", category |-> "work",
        session_id |-> "s0", confidence |-> 8, created_at |-> 0,
        expires_at |-> 1 ] }

Init ==
    /\ users = InitUsers
    /\ memories = InitMemories
    /\ nextMemId = 3
    /\ now = 0
    /\ pc = [ p \in Procs |-> "idle" ]
    /\ req = [ p \in Procs |-> NoReq ]
    /\ loc = [ p \in Procs |-> NoLoc ]
    /\ resp = [ p \in Procs |-> NoResp ]
    /\ last = [ req |-> NoReq, resp |-> NoResp ]
    /\ pre = [ users |-> InitUsers, memories |-> InitMemories ]
    /\ started = 0
    /\ held = [ p \in Procs |-> 0 ]

RECURSIVE Sum(_, _)
Sum(f, S) == IF S = {} THEN 0
             ELSE LET x == CHOOSE y \in S : TRUE IN f[x] + Sum(f, S \ {x})

\* connections out of the pool
InUse == Sum(held, Procs)

\* an exit that keeps the connection when the handler raises
DoneLeakOnError(p, status, body) ==
    /\ pc' = [ pc EXCEPT ![p] = "done" ]
    /\ resp' = [ resp EXCEPT ![p] = [ status |-> status, body |-> body ] ]
    /\ held' = IF status >= 400 THEN held ELSE [ held EXCEPT ![p] = 0 ]

\* the handler returned or raised: the response is ready, and leaving the
\* "async with pool.acquire()" block gives the connection back
Done(p, status, body) ==
    /\ pc' = [ pc EXCEPT ![p] = "done" ]
    /\ resp' = [ resp EXCEPT ![p] = [ status |-> status, body |-> body ] ]
    /\ held' = [ held EXCEPT ![p] = 0 ]

\* the handler goes on to its next statement, on the same connection
Goto(p, label) ==
    /\ pc' = [ pc EXCEPT ![p] = label ]
    /\ UNCHANGED <<resp, held>>

\* async with pool.acquire() as conn: the handler takes a connection, waiting
\* while the pool has none left, and goes on to its first statement
Enter(p, label) ==
    /\ InUse < PoolMaxSize
    /\ pc' = [ pc EXCEPT ![p] = label ]
    /\ held' = [ held EXCEPT ![p] = @ + 1 ]
    /\ UNCHANGED resp

\* a request arrives and is given to the first idle worker
Accept(p, r) ==
    /\ pc[p] = "idle"
    /\ \A q \in Procs : pc[q] = "idle" => p <= q
    /\ started < MaxRequests
    /\ started' = started + 1
    /\ req' = [ req EXCEPT ![p] = r ]
    /\ loc' = [ loc EXCEPT ![p] = NoLoc ]
    /\ pre' = [ users |-> users, memories |-> memories ]
    /\ UNCHANGED <<users, memories, nextMemId, now, last>>

(* ------------------- get_or_create_user (create, bulk) ---------------- *)
StartCreate(p) ==
    \E body \in CreateBodies :
        /\ Accept(p, [ op |-> "create", body |-> body ])
        /\ IF ConfidenceValid(body)
           THEN Enter(p, "get_user")
           ELSE Done(p, 422, "confidence")

StartBulk(p) ==
    \E body \in BulkBodies :
        /\ Accept(p, [ op |-> "bulk", body |-> body ])
        /\ Enter(p, "get_user")

\* get_or_create_user has returned user_id to create_memory / create_bulk
Resolved(p, user_id, xo_user_id) ==
    /\ loc' = [ loc EXCEPT ![p].user_id = user_id, ![p].xo_user_id = xo_user_id ]
    /\ IF req[p].op = "create"
       THEN Goto(p, "insert_memory")
       ELSE IF Len(req[p].body.memories) = 0
            THEN Done(p, 201, [ created |-> 0, duplicates_skipped |-> 0 ])
            ELSE Goto(p, "bulk_insert")

\* row = await conn.fetchrow("SELECT id, xo_user_id FROM users ..."); if row: return
GetUser(p) ==
    /\ pc[p] = "get_user"
    /\ LET rows == SelectUser(req[p].body.channel, req[p].body.peer)
       IN  IF rows # {}
           THEN \E row \in rows : Resolved(p, row.id, row.xo_user_id)
           ELSE Goto(p, "create_user") /\ UNCHANGED loc
    /\ UNCHANGED <<users, memories, nextMemId, now, req, last, pre, started>>

\* row = await conn.fetchrow("INSERT INTO users ... RETURNING id"); return row["id"], None
CreateUser(p) ==
    /\ pc[p] = "create_user"
    /\ LET channel == req[p].body.channel
           peer == req[p].body.peer
       IN  IF UsersUniqueViolation(channel, peer)
           THEN /\ Done(p, 500, "UniqueViolationError: users")
                /\ UNCHANGED <<users, loc>>
           ELSE /\ users' = users \cup { NewUserRow(GenRandomUuid, channel, peer) }
                /\ Resolved(p, GenRandomUuid, None)
    /\ UNCHANGED <<memories, nextMemId, now, req, last, pre, started>>

(* --------------------------- create_memory ---------------------------- *)
\* an INSERT ... ON CONFLICT (user_id, fact) DO UPDATE: the stored row takes the
\* new request's fields
InsertMemoryUpsert(p) ==
    /\ pc[p] = "insert_memory"
    /\ LET mem == MemoryCreate(req[p].body)
           row == NewMemoryRow(loc[p].user_id, mem.fact, mem.category,
                               mem.session_id, mem.confidence, mem.expires_at)
           old == SelectMemory(loc[p].user_id, mem.fact)
       IN  IF StoreRejects(mem.fact)
           THEN /\ Done(p, 500, "store error")
                /\ UNCHANGED <<memories, nextMemId>>
           ELSE IF old # {}
           THEN \E o \in old :
                   /\ memories' = (memories \ old)
                                    \cup { [ row EXCEPT !.id = o.id,
                                                        !.created_at = o.created_at ] }
                   /\ Done(p, 201, Returning([ row EXCEPT !.id = o.id,
                                                          !.created_at = o.created_at ]))
                   /\ UNCHANGED nextMemId
           ELSE /\ memories' = memories \cup { row }
                /\ nextMemId' = nextMemId + 1
                /\ Done(p, 201, Returning(row))
    /\ UNCHANGED <<users, now, req, loc, last, pre, started>>

\* row = await conn.fetchrow("INSERT INTO user_memories ... RETURNING ...")
InsertMemory(p) ==
    /\ pc[p] = "insert_memory"
    /\ LET mem == MemoryCreate(req[p].body)
           row == NewMemoryRow(loc[p].user_id, mem.fact, mem.category,
                               mem.session_id, mem.confidence, mem.expires_at)
       IN  IF StoreRejects(mem.fact)
           THEN /\ Done(p, 500, "store error")
                /\ UNCHANGED <<memories, nextMemId, loc>>
           ELSE IF MemoryUniqueViolation(loc[p].user_id, mem.fact)
           THEN /\ Goto(p, "select_existing")
                /\ loc' = [ loc EXCEPT ![p].conflict = TRUE ]
                /\ UNCHANGED <<memories, nextMemId>>
           ELSE /\ memories' = memories \cup { row }
                /\ nextMemId' = nextMemId + 1
                /\ Done(p, 201, Returning(row))
                /\ UNCHANGED loc
    /\ UNCHANGED <<users, now, req, last, pre, started>>

\* except UniqueViolationError: existing = await conn.fetchrow("SELECT id ...");
\* raise HTTPException(409, {..., "existing_id": existing["id"]})
SelectExisting(p) ==
    /\ pc[p] = "select_existing"
    /\ LET rows == SelectMemory(loc[p].user_id, req[p].body.fact)
       IN  IF rows = {}
           THEN Done(p, 500, "TypeError: existing is None")
           ELSE \E m \in rows :
                   Done(p, 409, [ message |-> "Memory exists", existing_id |-> m.id ])
    /\ UNCHANGED <<users, memories, nextMemId, now, req, loc, last, pre, started>>

(* ---------------------------- create_bulk ----------------------------- *)
\* created += 1 placed before the INSERT: a refused entry is counted as created too
TallyBeforeInsert(l, dup) ==
    [ created    |-> l.created + 1,
      duplicates |-> IF dup THEN l.duplicates + 1 ELSE l.duplicates ]

\* created += 1 after the INSERT; except UniqueViolationError: duplicates += 1
Tally(l, dup) ==
    [ created    |-> IF dup THEN l.created ELSE l.created + 1,
      duplicates |-> IF dup THEN l.duplicates + 1 ELSE l.duplicates ]

\* one pass of "for m in bulk.memories": the INSERT of entry loc[p].i
BulkInsert(p) ==
    /\ pc[p] = "bulk_insert"
    /\ LET body == req[p].body
           m == body.memories[loc[p].i]
           fact == Get(m, "fact", None)
           row == NewMemoryRow(loc[p].user_id, fact,
                               Get(m, "category", DefaultCategory),
                               Get(body, "session_id", None),
                               Get(m, "confidence", DefaultConfidence),
                               NullTime)
           dup == MemoryUniqueViolation(loc[p].user_id, fact)
           created == Tally(loc[p], dup).created
           duplicates == Tally(loc[p], dup).duplicates
       IN  IF StoreRejects(fact)
           THEN /\ Done(p, 500, "store error")
                /\ UNCHANGED <<memories, nextMemId, loc>>
           ELSE /\ IF dup
                   THEN UNCHANGED <<memories, nextMemId>>
                   ELSE /\ memories' = memories \cup { row }
                        /\ nextMemId' = nextMemId + 1
                /\ loc' = [ loc EXCEPT ![p].i = @ + 1,
                                       ![p].created = created,
                                       ![p].duplicates = duplicates ]
                /\ IF loc[p].i = Len(body.memories)
                   THEN Done(p, 201, [ created |-> created,
                                       duplicates_skipped |-> duplicates ])
                   ELSE Goto(p, "bulk_insert")
    /\ UNCHANGED <<users, now, req, last, pre, started>>

(* ---------------------------- get_memories ---------------------------- *)
StartList(p) ==
    \E q \in ListQueries :
        /\ Accept(p, [ op |-> "list", body |-> q ])
        /\ IF LimitValid(q)
           THEN Enter(p, "list_user")
           ELSE Done(p, 422, "limit")

\* a listing that resolves its user with get_or_create_user: an unknown pair
\* gets a users row
ListUserCreates(p) ==
    /\ pc[p] = "list_user"
    /\ LET q == req[p].body
           rows == SelectUser(q.channel, q.peer)
       IN  IF rows = {}
           THEN /\ users' = users \cup { NewUserRow(GenRandomUuid, q.channel, q.peer) }
                /\ loc' = [ loc EXCEPT ![p].user_id = GenRandomUuid ]
                /\ Goto(p, "list_query")
           ELSE /\ \E u \in rows :
                      /\ loc' = [ loc EXCEPT ![p].user_id = u.id,
                                             ![p].xo_user_id = u.xo_user_id ]
                      /\ Goto(p, "list_query")
                /\ UNCHANGED users
    /\ UNCHANGED <<memories, nextMemId, now, req, last, pre, started>>

\* user_row = await conn.fetchrow("SELECT id, xo_user_id FROM users ...")
ListUser(p) ==
    /\ pc[p] = "list_user"
    /\ LET q == req[p].body
           rows == SelectUser(q.channel, q.peer)
       IN  IF rows = {}
           THEN /\ Done(p, 200, ListResponse(q, NoUser, None, <<>>))
                /\ UNCHANGED loc
           ELSE \E u \in rows :
                   /\ loc' = [ loc EXCEPT ![p].user_id = u.id,
                                          ![p].xo_user_id = u.xo_user_id ]
                   /\ Goto(p, "list_query")
    /\ UNCHANGED <<users, memories, nextMemId, now, req, last, pre, started>>

\* rows = await conn.fetch(query, *params)
ListQuery(p) ==
    /\ pc[p] = "list_query"
    /\ LET q == req[p].body
       IN  IF LimitOf(q) < 0
           THEN Done(p, 500, "store error")
           ELSE \E s \in OrderDesc(Matching(loc[p].user_id, q)) :
                   Done(p, 200, ListResponse(q, loc[p].user_id, loc[p].xo_user_id,
                                             Rows(Limit(s, LimitOf(q)))))
    /\ UNCHANGED <<users, memories, nextMemId, now, req, loc, last, pre, started>>

(* ---------------------------- delete_memory --------------------------- *)
StartDeleteOne(p) ==
    \E id \in 1..nextMemId :
        /\ Accept(p, [ op |-> "delete_one", body |-> [ memory_id |-> id ] ])
        /\ Enter(p, "delete_exec")

\* a delete that does not look at the command tag: "DELETE 0" is answered ok
DeleteExecAlwaysOk(p) ==
    /\ pc[p] = "delete_exec"
    /\ LET id == req[p].body.memory_id
           gone == { m \in memories : m.id = id }
       IN  /\ memories' = memories \ gone
           /\ Done(p, 200, [ ok |-> TRUE, deleted_id |-> id ])
    /\ UNCHANGED <<users, nextMemId, now, req, loc, last, pre, started>>

\* result = await conn.execute("DELETE FROM user_memories WHERE id = $1", memory_id)
DeleteExec(p) ==
    /\ pc[p] = "delete_exec"
    /\ LET id == req[p].body.memory_id
           gone == { m \in memories : m.id = id }
       IN  /\ memories' = memories \ gone
           /\ IF Cardinality(gone) = 0
              THEN Done(p, 404, "Memory not found")
              ELSE Done(p, 200, [ ok |-> TRUE, deleted_id |-> id ])
    /\ UNCHANGED <<users, nextMemId, now, req, loc, last, pre, started>>

(* ------------------------------ delete_all ---------------------------- *)
StartDeleteAll(p) ==
    \E q \in ListBase :
        /\ Accept(p, [ op |-> "delete_all", body |-> q ])
        /\ Enter(p, "delete_all_user")

\* user_row = await conn.fetchrow("SELECT id FROM users ...")
DeleteAllUser(p) ==
    /\ pc[p] = "delete_all_user"
    /\ LET rows == SelectUser(req[p].body.channel, req[p].body.peer)
       IN  IF rows = {}
           THEN /\ Done(p, 200, [ ok |-> TRUE, deleted_count |-> 0 ])
                /\ UNCHANGED loc
           ELSE \E u \in rows :
                   /\ loc' = [ loc EXCEPT ![p].user_id = u.id ]
                   /\ Goto(p, "delete_all_exec")
    /\ UNCHANGED <<users, memories, nextMemId, now, req, last, pre, started>>

\* a delete_all that removes the users row along with its memories
DeleteAllExecWithUser(p) ==
    /\ pc[p] = "delete_all_exec"
    /\ LET gone == { m \in memories : m.user_id = loc[p].user_id }
       IN  /\ memories' = memories \ gone
           /\ users' = { u \in users : u.id # loc[p].user_id }
           /\ Done(p, 200, [ ok |-> TRUE, deleted_count |-> Cardinality(gone) ])
    /\ UNCHANGED <<nextMemId, now, req, loc, last, pre, started>>

\* a delete_all that spares the rows already expired
DeleteAllExecUnexpired(p) ==
    /\ pc[p] = "delete_all_exec"
    /\ LET gone == { m \in memories : m.user_id = loc[p].user_id /\ Unexpired(m) }
       IN  /\ memories' = memories \ gone
           /\ Done(p, 200, [ ok |-> TRUE, deleted_count |-> Cardinality(gone) ])
    /\ UNCHANGED <<users, nextMemId, now, req, loc, last, pre, started>>

\* result = await conn.execute("DELETE FROM user_memories WHERE user_id = $1", ...)
DeleteAllExec(p) ==
    /\ pc[p] = "delete_all_exec"
    /\ LET gone == { m \in memories : m.user_id = loc[p].user_id }
       IN  /\ memories' = memories \ gone
           /\ Done(p, 200, [ ok |-> TRUE, deleted_count |-> Cardinality(gone) ])
    /\ UNCHANGED <<users, nextMemId, now, req, loc, last, pre, started>>

(* ------------------------------ the rest ------------------------------ *)
\* the response is sent and the worker is free again
Respond(p) ==
    /\ pc[p] = "done"
    /\ last' = IF req[p].op = "create" /\ resp[p].status = 201
               THEN [ req |-> req[p], resp |-> resp[p] ]
               ELSE [ req |-> NoReq, resp |-> NoResp ]
    /\ pre' = [ users |-> users, memories |-> memories ]
    /\ pc' = [ pc EXCEPT ![p] = "idle" ]
    /\ req' = [ req EXCEPT ![p] = NoReq ]
    /\ loc' = [ loc EXCEPT ![p] = NoLoc ]
    /\ resp' = [ resp EXCEPT ![p] = NoResp ]
    /\ UNCHANGED <<users, memories, nextMemId, now, started, held>>

\* the store clock (NOW()) advances
Tick ==
    /\ now < MaxTime
    /\ now' = now + 1
    /\ UNCHANGED <<users, memories, nextMemId, pc, req, loc, resp, last, pre, started,
                   held>>

Next ==
    \/ \E p \in Procs : StartCreate(p)
    \/ \E p \in Procs : StartBulk(p)
    \/ \E p \in Procs : StartList(p)
    \/ \E p \in Procs : StartDeleteOne(p)
    \/ \E p \in Procs : StartDeleteAll(p)
    \/ \E p \in Procs : GetUser(p)
    \/ \E p \in Procs : CreateUser(p)
    \/ \E p \in Procs : InsertMemory(p)
    \/ \E p \in Procs : SelectExisting(p)
    \/ \E p \in Procs : BulkInsert(p)
    \/ \E p \in Procs : ListUser(p)
    \/ \E p \in Procs : ListQuery(p)
    \/ \E p \in Procs : DeleteExec(p)
    \/ \E p \in Procs : DeleteAllUser(p)
    \/ \E p \in Procs : DeleteAllExec(p)
    \/ \E p \in Procs : Respond(p)
    \/ Tick

Spec == Init /\ [][Next]_vars

\* Requests served one after another: a request is accepted only when no other
\* is in flight.
Quiet == \A q \in Procs : pc[q] = "idle"

NextSeq ==
    \/ \E p \in Procs : Quiet /\ StartCreate(p)
    \/ \E p \in Procs : Quiet /\ StartBulk(p)
    \/ \E p \in Procs : Quiet /\ StartList(p)
    \/ \E p \in Procs : Quiet /\ StartDeleteOne(p)
    \/ \E p \in Procs : Quiet /\ StartDeleteAll(p)
    \/ \E p \in Procs : GetUser(p)
    \/ \E p \in Procs : CreateUser(p)
    \/ \E p \in Procs : InsertMemory(p)
    \/ \E p \in Procs : SelectExisting(p)
    \/ \E p \in Procs : BulkInsert(p)
    \/ \E p \in Procs : ListUser(p)
    \/ \E p \in Procs : ListQuery(p)
    \/ \E p \in Procs : DeleteExec(p)
    \/ \E p \in Procs : DeleteAllUser(p)
    \/ \E p \in Procs : DeleteAllExec(p)
    \/ \E p \in Procs : Respond(p)
    \/ Tick

SpecSeq == Init /\ [][NextSeq]_vars

(* ====================== user resolution (C1, C2) ====================== *)
Resolving(p) == req[p].op \in { "create", "bulk" }

SamePair(a, b) == a.channel = b.channel /\ a.peer = b.peer

LostUserRace(p) ==
    /\ pc[p] = "done"
    /\ Resolving(p)
    /\ resp[p].status = 500
    /\ resp[p].body = "UniqueViolationError: users"

\* C1: when two requests resolve the same unknown (channel, peer) at the same
\* time, no call fails on the users uniqueness constraint (the loser re-reads
\* the row) and both calls get the same user id.
C1_ResolverRaceSafe ==
    \A p \in Procs :
        /\ ~LostUserRace(p)
        /\ \A q \in Procs :
              ( /\ Resolving(p) /\ Resolving(q)
                /\ SamePair(req[p].body, req[q].body)
                /\ loc[p].user_id # NoUser /\ loc[q].user_id # NoUser )
              => loc[p].user_id = loc[q].user_id

\* C2: the users table never holds two rows with the same (channel, peer).
C2_UsersPairUnique ==
    \A u \in users : \A v \in users :
        (u.channel = v.channel /\ u.channel_peer = v.channel_peer) => u = v

\* two requests raced to create the same user and the second INSERT was refused
C2_Witness ==
    \E p \in Procs : \E q \in Procs :
        /\ LostUserRace(p)
        /\ Resolving(q) /\ q # p
        /\ SamePair(req[p].body, req[q].body)
        /\ loc[q].user_id # NoUser
        /\ Cardinality(SelectUser(req[p].body.channel, req[p].body.peer)) = 1

(* ========================= create (C3, C4, C5) ======================== *)
IsDone(p, op) == pc[p] = "done" /\ req[p].op = op

SameMemoryKey(a, b) == SamePair(a, b) /\ a.fact = b.fact

\* the request before this one was a create that stored its memory, and this
\* one is a valid create of the same (channel, peer, fact)
SecondCreate(p) ==
    /\ IsDone(p, "create")
    /\ ConfidenceValid(req[p].body)
    /\ last.req.op = "create"
    /\ last.resp.status = 201
    /\ SameMemoryKey(req[p].body, last.req.body)

\* C3: with requests served one after another, a create that succeeds stores
\* exactly one new row and returns its id; a following valid create of the same
\* (channel, peer, fact) stores nothing and gets 409 with existing_id equal to
\* that id, and the one stored row keeps the first call's category, confidence,
\* session_id and expires_at.
C3_SecondCreateConflicts ==
    \A p \in Procs :
        /\ (IsDone(p, "create") /\ resp[p].status = 201) =>
              \E m \in memories :
                  /\ m.id = resp[p].body.id
                  /\ m.fact = req[p].body.fact
                  /\ m \notin pre.memories
                  /\ memories = pre.memories \cup { m }
        /\ SecondCreate(p) =>
              /\ resp[p].status = 409
              /\ resp[p].body.existing_id = last.resp.body.id
              /\ memories = pre.memories
              /\ LET first == MemoryCreate(last.req.body)
                     rows == { m \in memories : /\ m.user_id = loc[p].user_id
                                                /\ m.fact = req[p].body.fact }
                 IN  /\ Cardinality(rows) = 1
                     /\ \A m \in rows :
                           /\ m.id = last.resp.body.id
                           /\ m.category = first.category
                           /\ m.confidence = first.confidence
                           /\ m.session_id = first.session_id
                           /\ m.expires_at = first.expires_at

\* a second create that carries other optional fields than the first was refused
C3_Witness ==
    \E p \in Procs :
        /\ SecondCreate(p)
        /\ resp[p].status = 409
        /\ MemoryCreate(req[p].body).category # MemoryCreate(last.req.body).category
        /\ MemoryCreate(req[p].body).expires_at # MemoryCreate(last.req.body).expires_at

\* C4: the user_memories table never holds two rows with the same
\* (user_id, fact).
C4_MemoriesFactUnique ==
    \A m \in memories : \A n \in memories :
        (m.user_id = n.user_id /\ m.fact = n.fact) => m = n

\* two requests in flight together inserted the same fact for the same user:
\* one stored it, the other's INSERT was refused
C4_Witness ==
    \E p \in Procs : \E q \in Procs :
        /\ p # q
        /\ pc[p] = "select_existing"
        /\ req[q].op \in { "create", "bulk" }
        /\ pc[q] = "done" /\ resp[q].status = 201
        /\ loc[p].user_id = loc[q].user_id
        /\ \E m \in memories :
              /\ m.user_id = loc[p].user_id
              /\ m.fact = req[p].body.fact
              /\ m.id >= 3

\* C5: a create whose INSERT was refused for uniqueness ends with 409 and the
\* id of a stored memory, whatever other requests do in between.
C5_ConflictReturnsExistingId ==
    \A p \in Procs :
        (IsDone(p, "create") /\ loc[p].conflict) =>
            /\ resp[p].status = 409
            /\ resp[p].body.existing_id \in 1..(nextMemId - 1)

(* ========================== bulk (C6, C7) ============================= *)
WellFormed(m) == "fact" \in DOMAIN m /\ m.fact # BadFact

\* the facts the store held for a user when the request in flight was accepted
FactsBefore(user_id) == { m.fact : m \in { n \in pre.memories : n.user_id = user_id } }

Stored(user_id, fact) == \E m \in memories : m.user_id = user_id /\ m.fact = fact

\* C6: with no other request in flight, a bulk_create of well-formed entries
\* returns created + duplicates_skipped = number of entries, duplicates_skipped
\* counts exactly the entries whose fact was stored before the call or by an
\* earlier entry, and afterwards every fact of the batch is stored.
C6_BulkCounts ==
    \A p \in Procs :
        ( /\ IsDone(p, "bulk")
          /\ \A i \in 1..Len(req[p].body.memories) : WellFormed(req[p].body.memories[i]) )
        => LET b == req[p].body.memories
               dups == { i \in 1..Len(b) :
                           \/ b[i].fact \in FactsBefore(loc[p].user_id)
                           \/ \E j \in 1..(i - 1) : b[j].fact = b[i].fact }
           IN  /\ resp[p].status = 201
               /\ resp[p].body.created + resp[p].body.duplicates_skipped = Len(b)
               /\ resp[p].body.duplicates_skipped = Cardinality(dups)
               /\ \A i \in 1..Len(b) : Stored(loc[p].user_id, b[i].fact)

\* a batch whose first entry is a duplicate and whose second entry is new
C6_Witness ==
    \E p \in Procs :
        /\ IsDone(p, "bulk")
        /\ resp[p].status = 201
        /\ Len(req[p].body.memories) = 2
        /\ req[p].body.memories[1].fact \in FactsBefore(loc[p].user_id)
        /\ req[p].body.memories[2].fact \notin FactsBefore(loc[p].user_id)
        /\ resp[p].body.created = 1
        /\ resp[p].body.duplicates_skipped = 1

\* C7: an entry the store refuses for another reason than uniqueness is
\* skipped: the bulk request still returns its counts and every well-formed
\* entry of the batch has been attempted (its fact is stored).
C7_BulkSkipsFailedEntry ==
    \A p \in Procs :
        IsDone(p, "bulk") =>
            /\ resp[p].status = 201
            /\ \A i \in 1..Len(req[p].body.memories) :
                  WellFormed(req[p].body.memories[i])
                      => Stored(loc[p].user_id, req[p].body.memories[i].fact)

(* ============================ create (C8) ============================= *)
\* C8: a create that ends in a failure leaves both tables as they were when
\* the request was accepted.
C8_FailedCreateChangesNothing ==
    \A p \in Procs :
        (IsDone(p, "create") /\ resp[p].status # 201) =>
            /\ users = pre.users
            /\ memories = pre.memories

(* ============================ list (C9, C10) ========================== *)
Listed(p) == pc[p] = "list_query" /\ pc'[p] = "done" /\ resp'[p].status = 200

\* C9: the rows a listing query returns are never expired (expires_at set and
\* not later than the store clock at the query); when no filter is given and
\* the limit is not reached every memory of the user that is not expired is
\* returned.
C9_ListOmitsExpired ==
    [][ \A p \in Procs :
          Listed(p) =>
            LET rows == resp'[p].body.memories
                q == req[p].body
                live == { m \in memories :
                            /\ m.user_id = loc[p].user_id
                            /\ (m.expires_at = NullTime \/ m.expires_at > now) }
            IN  /\ \A i \in 1..Len(rows) :
                      ~(rows[i].expires_at # NullTime /\ rows[i].expires_at <= now)
                /\ ( /\ DOMAIN q = { "channel", "peer" }
                     /\ Cardinality(live) <= DefaultLimit )
                   => \A m \in live : \E i \in 1..Len(rows) : rows[i].id = m.id
      ]_vars

\* a listing that returned a memory and left out one of the user's that has expired
C9_Witness ==
    \E p \in Procs :
        /\ IsDone(p, "list")
        /\ resp[p].status = 200
        /\ Len(resp[p].body.memories) > 0
        /\ \E m \in memories :
              /\ m.user_id = loc[p].user_id
              /\ m.expires_at # NullTime /\ m.expires_at <= now
              /\ \A i \in 1..Len(resp[p].body.memories) :
                    resp[p].body.memories[i].id # m.id

\* C10 as stated: a listing with limit above 200 is rejected and returns no
\* rows; an accepted one returns at most min(limit, 200) rows and its total is
\* the number of rows it returns.
C10_ListLimit ==
    \A p \in Procs :
        IsDone(p, "list") =>
            LET n == Get(req[p].body, "limit", DefaultLimit)
            IN  /\ n > MaxLimit => resp[p].status = 422
                /\ resp[p].status = 200 =>
                      /\ Len(resp[p].body.memories) <= Min(n, MaxLimit)
                      /\ resp[p].body.total = Len(resp[p].body.memories)

\* C10 amended: a listing with limit above 200 is rejected and returns no rows;
\* an accepted one returns at most min(limit, 200) rows, and none when the limit
\* is negative; its total is the number of rows it returns.
C10_ListLimitAmended ==
    \A p \in Procs :
        IsDone(p, "list") =>
            LET n == Get(req[p].body, "limit", DefaultLimit)
            IN  /\ n > MaxLimit => resp[p].status = 422
                /\ resp[p].status = 200 =>
                      /\ n >= 0 => Len(resp[p].body.memories) <= Min(n, MaxLimit)
                      /\ n < 0 => Len(resp[p].body.memories) = 0
                      /\ resp[p].body.total = Len(resp[p].body.memories)

\* limit=1 answered with one row and total 1 while the user has two memories
\* that were stored, and not expired, before the request
C10_Witness ==
    \E p \in Procs :
        /\ IsDone(p, "list")
        /\ resp[p].status = 200
        /\ DOMAIN req[p].body = { "channel", "peer", "limit" }
        /\ req[p].body.limit = 1
        /\ resp[p].body.total = 1
        /\ now = 0
        /\ memories = InitMemories
        /\ loc[p].user_id = 1

(* ============================ list (C11, C12) ========================= *)
\* C11: a listing changes neither table, whatever its position; for a pair
\* with no users row an accepted listing answers 200 with an empty memories
\* list, total 0 and null user_id and xo_user_id.
C11_ListReadOnly ==
    \A p \in Procs :
        req[p].op = "list" =>
            /\ users = pre.users
            /\ memories = pre.memories
            /\ ( /\ pc[p] = "done"
                 /\ resp[p].status # 422
                 /\ \A u \in pre.users : ~( /\ u.channel = req[p].body.channel
                                            /\ u.channel_peer = req[p].body.peer ) )
               => /\ resp[p].status = 200
                  /\ resp[p].body.memories = <<>>
                  /\ resp[p].body.total = 0
                  /\ resp[p].body.user_id = NoUser
                  /\ resp[p].body.xo_user_id = None

\* a listing for the unknown peer was answered and an expired memory of the
\* other user is still stored
C11_Witness ==
    \E p \in Procs :
        /\ IsDone(p, "list")
        /\ resp[p].status = 200
        /\ SelectUser(req[p].body.channel, req[p].body.peer) = {}
        /\ resp[p].body.total = 0
        /\ \E m \in memories : m.expires_at # NullTime /\ m.expires_at <= now

\* C12: for a known user the listing returns exactly the first `limit` rows,
\* newest first, of that user's unexpired memories whose category equals the
\* category parameter when one is given and whose created_at is later than
\* `since` when one is given.
C12_ListReturnsFiltered ==
    [][ \A p \in Procs :
          Listed(p) =>
            LET q == req[p].body
                rows == resp'[p].body.memories
                want == { m \in memories :
                            /\ m.user_id = loc[p].user_id
                            /\ (m.expires_at = NullTime \/ m.expires_at > now)
                            /\ ("category" \in DOMAIN q => m.category = q.category)
                            /\ ("since" \in DOMAIN q => m.created_at > q.since) }
                n == Min(Get(q, "limit", DefaultLimit), Cardinality(want))
                ids == { rows[i].id : i \in 1..Len(rows) }
            IN  /\ Len(rows) = n
                /\ Cardinality(ids) = n
                /\ \A i \in 1..Len(rows) :
                      \E m \in want :
                          /\ m.id = rows[i].id
                          /\ m.fact = rows[i].fact
                          /\ m.category = rows[i].category
                          /\ m.confidence = rows[i].confidence
                          /\ m.created_at = rows[i].created_at
                          /\ m.expires_at = rows[i].expires_at
                /\ \A i \in 1..Len(rows) : \A j \in 1..Len(rows) :
                      i < j => rows[i].created_at >= rows[j].created_at
                /\ \A m \in want : \A i \in 1..Len(rows) :
                      m.id \notin ids => m.created_at <= rows[i].created_at
      ]_vars

(* =========================== deletes (C13, C14) ======================= *)
\* C13: delete_one with an id no row has answers 404 and leaves both tables
\* as they were; with an id a row has it answers ok with that id and removes
\* exactly that row, whoever owns it, every other memory row and every users
\* row staying as it was.
C13_DeleteOne ==
    \A p \in Procs :
        IsDone(p, "delete_one") =>
            LET id == req[p].body.memory_id
                hit == { m \in pre.memories : m.id = id }
            IN  /\ users = pre.users
                /\ IF hit = {}
                   THEN /\ resp[p].status = 404
                        /\ memories = pre.memories
                   ELSE /\ resp[p].status = 200
                        /\ resp[p].body.ok
                        /\ resp[p].body.deleted_id = id
                        /\ Cardinality(hit) = 1
                        /\ memories = pre.memories \ hit

\* a delete_one removed one row and another row is still stored
C13_Witness ==
    \E p \in Procs :
        /\ IsDone(p, "delete_one")
        /\ resp[p].status = 200
        /\ Cardinality(memories) = Cardinality(pre.memories) - 1
        /\ memories # {}

\* C14: delete_all for a pair with no users row answers deleted_count 0 and
\* creates no user; for a known pair deleted_count is the number of memory
\* rows the user owned, expired ones included, the user owns none afterwards,
\* and the users table and the memories of other users are as they were.
C14_DeleteAll ==
    \A p \in Procs :
        IsDone(p, "delete_all") =>
            LET us == { u \in pre.users : /\ u.channel = req[p].body.channel
                                          /\ u.channel_peer = req[p].body.peer }
            IN  /\ users = pre.users
                /\ resp[p].status = 200
                /\ IF us = {}
                   THEN /\ resp[p].body.deleted_count = 0
                        /\ memories = pre.memories
                   ELSE \A u \in us :
                        /\ resp[p].body.deleted_count =
                              Cardinality({ m \in pre.memories : m.user_id = u.id })
                        /\ memories = { m \in pre.memories : m.user_id # u.id }

\* a delete_all removed two rows or more, one of them expired, while a memory
\* of another user stays stored
C14_Witness ==
    \E p \in Procs :
        /\ IsDone(p, "delete_all")
        /\ resp[p].body.deleted_count >= 2
        /\ \E m \in pre.memories \ memories :
              m.expires_at # NullTime /\ m.expires_at <= now
        /\ memories # {}

(* ====================== stored values (C15, C16) ====================== *)
\* C15: every stored memory has a confidence between 0 and 1 (MinConfidence
\* and MaxConfidence in tenths): a create outside the range stores nothing
\* and no bulk entry outside the range is stored.
C15_ConfidenceInRange ==
    \A m \in memories : m.confidence \in MinConfidence..MaxConfidence

\* C16: every stored memory has a non-empty fact: neither create nor
\* bulk_create stores a row whose fact is the empty string or missing.
C16_FactNonEmpty ==
    \A m \in memories : m.fact # "" /\ m.fact # None

(* ============================= users (C17) ============================ *)
\* C17: no step updates or deletes a users row (the table only grows); a
\* get_or_create_user that finds a row for its pair returns that row's id and
\* xo_user_id and changes neither table; and every memory's user_id is the
\* id of a users row, before and after every step.
C17_UsersOnlyGrow ==
    [][ /\ users \subseteq users'
        /\ \A p \in Procs :
              ( /\ pc[p] = "get_user"
                /\ pc'[p] # "get_user"
                /\ SelectUser(req[p].body.channel, req[p].body.peer) # {} )
              => /\ \A u \in SelectUser(req[p].body.channel, req[p].body.peer) :
                      /\ loc'[p].user_id = u.id
                      /\ loc'[p].xo_user_id = u.xo_user_id
                 /\ users' = users
                 /\ memories' = memories
        /\ \A m \in memories : \E u \in users : u.id = m.user_id
        /\ \A m \in memories' : \E u \in users' : u.id = m.user_id
      ]_vars

\* a create resolved to the user that an earlier request created for the
\* second peer, whose memory is already stored
C17_Witness ==
    \E p \in Procs :
        /\ req[p].op = "create"
        /\ pc[p] = "insert_memory"
        /\ loc[p].user_id = 2
        /\ \E m \in memories : m.user_id = 2

Owner(m) == { u \in InitUsers : u.id = m.user_id }

\* the only two requests accepted so far are p's and q's, and both have ended:
\* before them the tables were the initial ones
OnlyTwo(p, q) == p # q /\ started = 2 /\ pc[p] = "done" /\ pc[q] = "done"

\* C19: two delete_one requests for the same existing id, in any interleaving:
\* exactly one answers ok, the other 404, and the row alone is removed; a
\* delete_one and a delete_all of the row's owner, in any interleaving: the
\* row is counted by exactly one of them, so delete_one's count (1 for ok, 0
\* for 404) plus deleted_count is the number of rows the owner had.
C19_ConcurrentDeletes ==
    \A p \in Procs : \A q \in Procs :
        (OnlyTwo(p, q) /\ req[p].op = "delete_one") =>
            \A m \in { x \in InitMemories : x.id = req[p].body.memory_id } :
                /\ ( req[q].op = "delete_one" /\ req[q].body.memory_id = m.id )
                   => /\ { resp[p].status, resp[q].status } = { 200, 404 }
                      /\ memories = InitMemories \ { m }
                /\ ( /\ req[q].op = "delete_all"
                     /\ \E u \in Owner(m) : /\ u.channel = req[q].body.channel
                                            /\ u.channel_peer = req[q].body.peer )
                   => /\ resp[p].status \in { 200, 404 }
                      /\ resp[q].status = 200
                      /\ (IF resp[p].status = 200 THEN 1 ELSE 0)
                            + resp[q].body.deleted_count
                         = Cardinality({ x \in InitMemories : x.user_id = m.user_id })
                      /\ \A x \in memories : x.user_id # m.user_id

\* worker 1 accepted its delete_one first, yet worker 2's delete_one of the
\* same row ran before it: worker 2 answered ok and worker 1 404
C19_Witness ==
    /\ OnlyTwo(1, 2)
    /\ req[1].op = "delete_one"
    /\ req[2].op = "delete_one"
    /\ req[1].body.memory_id = req[2].body.memory_id
    /\ resp[1].status = 404
    /\ resp[2].status = 200
    /\ \E m \in InitMemories : m.id = req[1].body.memory_id

====
